---- MODULE Spec2Model ----
(***************************************************************************)
(* Model of the sunbeam deployment step runner: the plan loop of the      *)
(* bootstrap command, the cluster and Juju Steps it sequences, the         *)
(* clusterd REST client's error translation and the JujuHelper client.     *)
(***************************************************************************)
EXTENDS Integers, Sequences, FiniteSets, TLC

(***************************************************************************)
(* Bounds of the model.                                                    *)
(***************************************************************************)
\* longest plan handed to the runner
MaxPlan == 2
\* longest error string of a response, counted in fragments
MaxErrLen == 3

(***************************************************************************)
(* Names of the deployment.                                                *)
(***************************************************************************)
\* utils.get_fqdn(): the name of the local node
Fqdn == "node-a"
\* the node a ClusterAddNodeStep generates a token for
NodeNames == {"node-b"}
\* snap.config "control-plane.model" and "control-plane.cloud"
Model == "openstack"
Cloud == "microk8s"
OtherK8sCloud == "other-k8s"
AppNames == {"keystone", "glance"}

(***************************************************************************)
(* BaseService._request: translation of error responses.                   *)
(* An error string is a sequence of fragments; a fragment is one of the    *)
(* four phrases of the table or some other text.  "pattern in error" is    *)
(* the occurrence of the phrase among the fragments.                       *)
(***************************************************************************)
F_remote == "remote with name"
F_join == "Failed to join cluster with the given join token"
F_unique == "UNIQUE constraint failed: internal_token_records.name"
F_daemon == "Daemon not yet initialized"
F_other == "database is locked"

Fragments == {F_remote, F_join, F_unique, F_daemon, F_other}

SeqsUpTo(S, n) == UNION {[1..k -> S] : k \in 0..n}

ErrorStrings == SeqsUpTo(Fragments, MaxErrLen)

\* Python's `pattern in error` on strings
Contains(pattern, error) == \E i \in 1..Len(error) : error[i] = pattern

\* a response of the daemon, or the failure of the transport itself
\* (body: the member names a listing carries)
OkResponse(b) == [kind |-> "ok", error |-> <<>>, desc |-> "", body |-> b]
ErrResponse(e) == [kind |-> "error", error |-> e, desc |-> "", body |-> {}]
\* non-2xx whose JSON body has no "error" field
NoErrFieldResponse == [kind |-> "noerrfield", error |-> <<>>, desc |-> "", body |-> {}]
\* session.request() itself raises (socket missing, connection refused)
TransportFailure(d) == [kind |-> "transport", error |-> <<>>, desc |-> d, body |-> {}]
\* no request made yet
NoResponse == [kind |-> "none", error |-> <<>>, desc |-> "", body |-> {}]

\* str() of the faults the model raises
MsgNodeAlreadyExists == "Already node exists in the microstack cluster"
MsgNodeJoin == "Join node to cluster failed with the given token"
MsgTokenAlreadyGenerated == "Token already generated for the node"
MsgClusterServiceUnavailable == "Microstack Cluster not initialized"
MsgHTTPError == "500 Server Error: Internal Server Error for url"
MsgTypeError == "argument of type 'NoneType' is not iterable"
MsgNameError == "name 'token' is not defined"
MsgAttributeError == "'NoneType' object has no attribute 'disconnect'"
MsgCalledProcessError == "Command returned non-zero exit status 1."

\* descriptions str(e) of faults raised by collaborators; a fault built with
\* no arguments (asyncio.TimeoutError(), Exception()) has the empty string
FaultDescs == {"", "connection refused"}

NotRaised == [tag |-> "none", cls |-> "", msg |-> ""]
Returned == [tag |-> "return", cls |-> "", msg |-> ""]
Raised(c, m) == [tag |-> "raise", cls |-> c, msg |-> m]

\* a classification by the phrase that comes first in the error string
ClassifyByPosition(error) ==
    LET hits == {i \in 1..Len(error) : error[i] # F_other}
        first == CHOOSE i \in hits : \A j \in hits : i <= j
    IN IF hits = {} THEN Raised("HTTPError", MsgHTTPError)
       ELSE IF error[first] = F_remote
            THEN Raised("NodeAlreadyExistsException", MsgNodeAlreadyExists)
       ELSE IF error[first] = F_join
            THEN Raised("NodeJoinException", MsgNodeJoin)
       ELSE IF error[first] = F_unique
            THEN Raised("TokenAlreadyGeneratedException", MsgTokenAlreadyGenerated)
       ELSE Raised("ClusterServiceUnavailableException", MsgClusterServiceUnavailable)

\* the if/elif chain of _request: the first rule of the table that matches
Classify(error) ==
    IF Contains(F_remote, error)
    THEN Raised("NodeAlreadyExistsException", MsgNodeAlreadyExists)
    ELSE IF Contains(F_join, error)
    THEN Raised("NodeJoinException", MsgNodeJoin)
    ELSE IF Contains(F_unique, error)
    THEN Raised("TokenAlreadyGeneratedException", MsgTokenAlreadyGenerated)
    ELSE IF Contains(F_daemon, error)
    THEN Raised("ClusterServiceUnavailableException", MsgClusterServiceUnavailable)
    ELSE Raised("HTTPError", MsgHTTPError)

\* _request: what the caller of the client gets for a response
BaseService_request(resp) ==
    IF resp.kind = "ok" THEN Returned
    ELSE IF resp.kind = "transport" THEN Raised("ConnectionError", resp.desc)
    ELSE IF resp.kind = "noerrfield" THEN Raised("TypeError", MsgTypeError)
    ELSE Classify(resp.error)

(***************************************************************************)
(* State.                                                                  *)
(***************************************************************************)
VARIABLES
    plan,             \* bootstrap(): the list `plan` of Steps
    idx,              \* position of the `for step in plan` loop
    pc,               \* where the command is
    ret,              \* what the last call of is_skip()/run() gave back
    result,           \* bootstrap(): the local `result`
    console,          \* progress lines printed, <<description, outcome>>
    echoed,           \* "Node has been bootstrapped ..." was printed
    exitMessage,      \* message of the ClickException that ended the command
    escaped,          \* class of a fault that left the command unhandled
    calls,            \* calls made on the Steps, <<method, position in plan>>
    daemonInit,       \* cluster daemon of this node is initialized
    members,          \* names of the cluster members the daemon lists
    tokens,           \* names with an outstanding join token
    k8sClouds,        \* `juju clouds`: names of the clouds of type k8s
    controllerClouds, \* `juju controllers`: clouds that host a controller
    jcontroller,      \* JujuHelper.controller
    models,           \* models of the Juju controller
    apps,             \* status of each application of the model
    response,         \* a response handed to _request
    raised,           \* what _request did with it
    first,            \* what an earlier invocation of the command left
    frame             \* locals of the JujuHelper coroutine in progress

runnerVars == <<plan, idx, pc, ret, result, console, echoed, exitMessage,
                escaped, calls, first>>
clusterVars == <<daemonInit, members, tokens>>
cliVars == <<k8sClouds, controllerClouds>>
jujuVars == <<models, apps>>
remoteVars == <<daemonInit, members, tokens, k8sClouds, controllerClouds,
                models, apps>>
requestVars == <<response, raised>>
vars == <<plan, idx, pc, ret, result, console, echoed, exitMessage, escaped,
          calls, daemonInit, members, tokens, k8sClouds, controllerClouds,
          jcontroller, models, apps, response, raised, first, frame>>

(***************************************************************************)
(* Steps and Results.                                                      *)
(***************************************************************************)
ClusterKinds == {"ClusterInitStep", "ClusterAddNodeStep", "ClusterJoinNodeStep"}
ModelProbeKinds == {"DestroyModelStep", "ModelStatusStep",
                    "WriteModelStatusStep", "WriteCharmLog"}
JujuKinds == {"BootstrapJujuStep", "CreateModelStep", "DeployBundleStep",
              "DeployControlPlaneStep"} \cup ModelProbeKinds

\* a Step: its class and the name or token it was constructed with
Step(k, a) == [kind |-> k, arg |-> a]
Steps ==
    {Step("ClusterInitStep", Fqdn), Step("ClusterJoinNodeStep", Fqdn)}
    \cup {Step("ClusterAddNodeStep", n) : n \in NodeNames}
    \cup {Step(k, Model) : k \in JujuKinds}

Plans == SeqsUpTo(Steps, MaxPlan) \ {<<>>}

\* BaseStep.description, the second argument of super().__init__
Description(s) ==
    CASE s.kind = "ClusterInitStep" -> "Bootstrapping microstack cluster"
      [] s.kind = "ClusterAddNodeStep" -> "Generate token for new node to add to cluster"
      [] s.kind = "ClusterJoinNodeStep" -> "Join node to microstack cluster"
      [] s.kind = "BootstrapJujuStep" -> "Bootstrapping Juju into microk8s"
      [] s.kind = "CreateModelStep" -> "Creating model"
      [] s.kind = "DeployBundleStep" -> "Deploying bundle"
      [] s.kind = "DestroyModelStep" -> "Destroying model"
      [] s.kind = "ModelStatusStep" -> "Retrieving status of applications in model"
      [] s.kind = "WriteModelStatusStep" -> "Record status of model"
      [] s.kind = "WriteCharmLog" -> "Getting charm logs for model"
      [] s.kind = "DeployControlPlaneStep" -> "Deploying OpenStack Control Plane to Kubernetes"

COMPLETED == "COMPLETED"
FAILED == "FAILED"

\* what a call of is_skip() or run() gives back to the runner
NoRet == [tag |-> "none", b |-> FALSE, rtype |-> "", msg |-> "", cls |-> ""]
RetBool(v) == [tag |-> "bool", b |-> v, rtype |-> "", msg |-> "", cls |-> ""]
RetResult(t, m) == [tag |-> "result", b |-> FALSE, rtype |-> t, msg |-> m, cls |-> ""]
RetRaise(c, m) == [tag |-> "raise", b |-> FALSE, rtype |-> "", msg |-> m, cls |-> c]
\* the call never returns (an unbounded wait on a system that never converges)
RetBlocked == [tag |-> "blocked", b |-> FALSE, rtype |-> "", msg |-> "", cls |-> ""]

\* Result.message when the Step gives none
NoMessage == ""
\* the join token minted for a name, written as the name
TokenFor(n) == n

(***************************************************************************)
(* The cluster daemon behind the client: the responses it can give to a    *)
(* request and the membership and tokens it holds afterwards.              *)
(***************************************************************************)
Unchanged(resp) ==
    [resp |-> resp, init |-> daemonInit, members |-> members, tokens |-> tokens]

\* faults any request can meet whatever the daemon holds
Spurious ==
    {ErrResponse(<<F_other>>), NoErrFieldResponse}
    \cup {TransportFailure(d) : d \in FaultDescs}

\* GET of the member list
DaemonGetMembers ==
    (IF daemonInit THEN {OkResponse(members)} ELSE {ErrResponse(<<F_daemon>>)})
    \cup Spurious

\* bootstrap(name, address)
DaemonBootstrap(name) ==
    (IF daemonInit
     THEN {Unchanged(ErrResponse(<<F_other>>))}
     ELSE {[resp |-> OkResponse({}), init |-> TRUE, members |-> {name},
            tokens |-> tokens],
           Unchanged(ErrResponse(<<F_daemon>>))})
    \cup {Unchanged(r) : r \in Spurious}

\* add_node(name, role)
DaemonAddNode(name) ==
    (IF ~daemonInit THEN {Unchanged(ErrResponse(<<F_daemon>>))}
     ELSE IF name \in tokens THEN {Unchanged(ErrResponse(<<F_other, F_unique>>))}
     ELSE {[resp |-> OkResponse({}), init |-> daemonInit, members |-> members,
            tokens |-> tokens \cup {name}]})
    \cup {Unchanged(r) : r \in Spurious}

\* join_node(name, address, token)
DaemonJoinNode(name, token) ==
    (IF name \in members THEN {Unchanged(ErrResponse(<<F_remote>>))}
     ELSE IF token \notin tokens THEN {Unchanged(ErrResponse(<<F_join>>))}
     ELSE {[resp |-> OkResponse({}), init |-> TRUE, members |-> members \cup {name},
            tokens |-> tokens \ {token}]})
    \cup {Unchanged(r) : r \in Spurious}

(***************************************************************************)
(* The cluster Steps (commands/clusterd.py).  Each method is an operator   *)
(* from the response its request met to what it gives back.                *)
(***************************************************************************)
\* is_skip of the three cluster Steps: the member list decides
ClusterInitStep_is_skip(s, resp) ==
    LET r == BaseService_request(resp) IN
    IF r.tag = "return" THEN RetBool(Fqdn \in resp.body)
    ELSE IF r.cls = "ClusterServiceUnavailableException" THEN RetBool(FALSE)
    ELSE RetRaise(r.cls, r.msg)

\* an is_skip that looks for the local node instead of the node to add
ClusterAddNodeStep_is_skip_LocalName(s, resp) ==
    LET r == BaseService_request(resp) IN
    IF r.tag = "return" THEN RetBool(Fqdn \in resp.body)
    ELSE IF r.cls = "ClusterServiceUnavailableException" THEN RetBool(FALSE)
    ELSE RetRaise(r.cls, r.msg)

ClusterAddNodeStep_is_skip(s, resp) ==
    LET r == BaseService_request(resp) IN
    IF r.tag = "return" THEN RetBool(s.arg \in resp.body)
    ELSE IF r.cls = "ClusterServiceUnavailableException" THEN RetBool(FALSE)
    ELSE RetRaise(r.cls, r.msg)

ClusterJoinNodeStep_is_skip(s, resp) ==
    LET r == BaseService_request(resp) IN
    IF r.tag = "return" THEN RetBool(Fqdn \in resp.body)
    ELSE IF r.cls = "ClusterServiceUnavailableException" THEN RetBool(FALSE)
    ELSE RetRaise(r.cls, r.msg)

\* run: `except Exception` turns every fault into FAILED with str(e)
ClusterInitStep_run(s, resp) ==
    LET r == BaseService_request(resp) IN
    IF r.tag = "return" THEN RetResult(COMPLETED, NoMessage)
    ELSE RetResult(FAILED, r.msg)

\* a run without the `except TokenAlreadyGeneratedException` clause
ClusterAddNodeStep_run_NoCatch(s, resp) ==
    LET r == BaseService_request(resp) IN
    IF r.tag = "return" THEN RetResult(COMPLETED, TokenFor(s.arg))
    ELSE RetRaise(r.cls, r.msg)

\* run: only TokenAlreadyGeneratedException is caught
ClusterAddNodeStep_run(s, resp) ==
    LET r == BaseService_request(resp) IN
    IF r.tag = "return" THEN RetResult(COMPLETED, TokenFor(s.arg))
    ELSE IF r.cls = "TokenAlreadyGeneratedException" THEN RetResult(FAILED, r.msg)
    ELSE RetRaise(r.cls, r.msg)

\* a run without the `except (NodeAlreadyExistsException, NodeJoinException)`
ClusterJoinNodeStep_run_NoCatch(s, resp) ==
    LET r == BaseService_request(resp) IN
    IF r.tag = "return" THEN RetRaise("NameError", MsgNameError)
    ELSE RetRaise(r.cls, r.msg)

\* run: after a successful join `message=token` names an undefined variable
ClusterJoinNodeStep_run(s, resp) ==
    LET r == BaseService_request(resp) IN
    IF r.tag = "return" THEN RetRaise("NameError", MsgNameError)
    ELSE IF r.cls \in {"NodeAlreadyExistsException", "NodeJoinException"}
         THEN RetResult(FAILED, r.msg)
    ELSE RetRaise(r.cls, r.msg)

(***************************************************************************)
(* JujuHelper (commands/juju.py): the client of the Juju controller.       *)
(* Each operation is the set of its outcomes: the value it returns or the  *)
(* fault it raises, the handle it leaves in self.controller and the state  *)
(* of the controller afterwards.                                           *)
(***************************************************************************)
NoApps == [a \in {} |-> "active"]
AllApps(st) == [a \in AppNames |-> st]
AllActive(f) == \A a \in DOMAIN f : f[a] = "active"

\* `if not self.controller: self.controller = Controller(); connect()`
Connect ==
    IF jcontroller = "None"
    THEN {[ok |-> TRUE, jc |-> "Connected"], [ok |-> FALSE, jc |-> "Unconnected"]}
    ELSE {[ok |-> TRUE, jc |-> jcontroller]}

\* the handle answers calls only if its connect() succeeded
Usable(c) == c.ok /\ c.jc = "Connected"

\* fault: the operation met a fault of the controller or of the connection
Outcome(tag, b, st, msg, jc, ms, as, fault) ==
    [tag |-> tag, b |-> b, status |-> st, msg |-> msg, jc |-> jc,
     models |-> ms, apps |-> as, fault |-> fault]

\* get_models: the model names, or [] on any fault
JujuHelper_get_models ==
    {Outcome("return", FALSE, NoApps, "", c.jc,
             IF Usable(c) /\ ok THEN models ELSE {}, apps,
             ~(Usable(c) /\ ok)) :
        c \in Connect, ok \in BOOLEAN}

\* JujuStepHelper.check_model_present over an outcome of get_models
check_model_present(o, model_name) == model_name \in o.models

\* an add_model that connects before its `try`
JujuHelper_add_model_ConnectOutsideTry(m) ==
    {IF ~c.ok
     THEN Outcome("raise", FALSE, NoApps, "connection refused", c.jc, models, apps, TRUE)
     ELSE Outcome("return",
                  Usable(c) /\ ok /\ m \notin models, NoApps, "", c.jc,
                  IF Usable(c) /\ ok /\ m \notin models THEN models \cup {m} ELSE models,
                  apps, ~(Usable(c) /\ ok /\ m \notin models)) :
        c \in Connect, ok \in BOOLEAN}

\* add_model: true if the controller created the model, false on any fault
JujuHelper_add_model(m) ==
    {Outcome("return",
             Usable(c) /\ ok /\ m \notin models, NoApps, "", c.jc,
             IF Usable(c) /\ ok /\ m \notin models THEN models \cup {m} ELSE models,
             apps, ~(Usable(c) /\ ok /\ m \notin models)) :
        c \in Connect, ok \in BOOLEAN}

\* get_model_status: the statuses seen at the last poll, {} on a fault
JujuHelper_get_model_status(m) ==
    {Outcome("return", FALSE,
             IF Usable(c) /\ ok /\ m \in models THEN apps ELSE NoApps,
             "", c.jc, models, apps, ~(Usable(c) /\ ok /\ m \in models)) :
        c \in Connect, ok \in BOOLEAN}

\* get_model_status_full: the status object; faults are not caught
JujuHelper_get_model_status_full(m) ==
    {IF Usable(c) /\ ok /\ m \in models
     THEN Outcome("return", FALSE, apps, "", c.jc, models, apps, FALSE)
     ELSE Outcome("raise", FALSE, NoApps, d, c.jc, models, apps, TRUE) :
        c \in Connect, ok \in BOOLEAN, d \in FaultDescs}

\* deploy_bundle: deploys, then blocks until every unit is active
JujuHelper_deploy_bundle(m) ==
    {Outcome("return", FALSE, NoApps, "", c.jc, models, apps, TRUE) : c \in Connect}
    \cup UNION {IF Usable(c) /\ m \in models
                THEN {\* every unit became active
                      Outcome("return", TRUE, NoApps, "", c.jc, models,
                              AllApps("active"), FALSE),
                      \* a fault interrupted the wait
                      Outcome("return", FALSE, NoApps, "", c.jc, models,
                              AllApps("waiting"), TRUE),
                      \* some unit never becomes active
                      Outcome("blocked", FALSE, NoApps, "", c.jc, models,
                              AllApps("waiting"), FALSE)}
                ELSE {} : c \in Connect}

\* a wait_until_active that returns without waiting
JujuHelper_wait_until_active_NoWait(m, ms, as) ==
    UNION {IF Usable(c) /\ m \in ms
           THEN {Outcome("return", FALSE, NoApps, "", c.jc, ms, as, FALSE)}
           ELSE {Outcome("raise", FALSE, NoApps, d, c.jc, ms, as, TRUE) :
                        d \in FaultDescs} : c \in Connect}

\* wait_until_active on the model as the apply left it: blocks until every
\* unit of the model is active; faults are not caught
JujuHelper_wait_until_active(m, ms, as) ==
    UNION {IF Usable(c) /\ m \in ms
           THEN {Outcome("return", FALSE, NoApps, "", c.jc, ms,
                         [a \in DOMAIN as |-> "active"], FALSE)}
                \cup (IF AllActive(as) THEN {}
                      ELSE {Outcome("blocked", FALSE, NoApps, "", c.jc, ms, as, FALSE)})
                \cup {Outcome("raise", FALSE, NoApps, d, c.jc, ms, as, TRUE) :
                        d \in FaultDescs}
           ELSE {Outcome("raise", FALSE, NoApps, d, c.jc, ms, as, TRUE) :
                        d \in FaultDescs} : c \in Connect}

\* destroy_model(wait=True): true once a listing lacks the model
JujuHelper_destroy_model(m) ==
    UNION {IF Usable(c) /\ m \in models
           THEN {\* removed within the 30 listings
                 Outcome("return", TRUE, NoApps, "", c.jc, models \ {m}, NoApps, FALSE),
                 \* a listing failed and gave []
                 Outcome("return", TRUE, NoApps, "", c.jc, models, apps, TRUE),
                 Outcome("return", TRUE, NoApps, "", c.jc, models \ {m}, NoApps, TRUE),
                 \* still present at the 30th listing, removed later or never
                 Outcome("return", FALSE, NoApps, "", c.jc, models, apps, FALSE),
                 Outcome("return", FALSE, NoApps, "", c.jc, models \ {m}, NoApps, FALSE),
                 \* controller.destroy_models raised
                 Outcome("return", FALSE, NoApps, "", c.jc, models, apps, TRUE)}
           ELSE {Outcome("return", FALSE, NoApps, "", c.jc, models, apps, TRUE)} :
        c \in Connect}

(***************************************************************************)
(* The juju command line (JujuStepHelper._juju_cmd, subprocess.run).       *)
(***************************************************************************)
\* a run of the CLI succeeds or raises CalledProcessError
CliOutcomes == {"ok", "CalledProcessError"}

(***************************************************************************)
(* The Juju Steps (commands/juju.py) and DeployControlPlaneStep            *)
(* (commands/bootstrap.py).                                                *)
(***************************************************************************)
MsgNoK8sCloud == "Could not find any k8s clouds to bootstrap"
MsgNoSuchCloud == "Could not find microk8s cloud to bootstrap"
MsgCreateModel == "Error in creation of model"
MsgDeployBundle == "Error deploying bundle"
MsgDestroyModel == "Error destroying model"
MsgModelStatus == "App is in state"
MsgWriteModelStatus == "Inspecting Model Status"
MsgWriteCharmLog == "Inspecting Charm Log"
MsgTerraform == "terraform apply failed"

\* is_skip: true iff some controller runs on a cloud of type k8s
BootstrapJujuStep_is_skip(cli) ==
    IF cli # "ok" THEN RetBool(FALSE)
    ELSE RetBool(controllerClouds \cap k8sClouds # {})

\* run: what it returns and the clouds hosting a controller afterwards
BootstrapJujuStep_run(cli, boot) ==
    IF cli # "ok"
    THEN [ret |-> RetResult(FAILED, MsgCalledProcessError), cc |-> controllerClouds]
    ELSE IF k8sClouds = {}
    THEN [ret |-> RetResult(FAILED, MsgNoK8sCloud), cc |-> controllerClouds]
    ELSE IF Cloud \notin k8sClouds
    THEN [ret |-> RetResult(FAILED, MsgNoSuchCloud), cc |-> controllerClouds]
    ELSE IF boot # "ok"
    THEN [ret |-> RetResult(FAILED, MsgCalledProcessError), cc |-> controllerClouds]
    ELSE [ret |-> RetResult(COMPLETED, NoMessage), cc |-> controllerClouds \cup {Cloud}]

CreateModelStep_is_skip(o) == RetBool(check_model_present(o, Model))

\* run has no try/except: a fault add_model raised would pass through
CreateModelStep_run(o) ==
    IF o.tag = "raise" THEN RetRaise("JujuError", o.msg)
    ELSE IF o.b THEN RetResult(COMPLETED, NoMessage)
    ELSE RetResult(FAILED, MsgCreateModel)

\* an is_skip that is content with one active application
DeployBundleStep_is_skip_SomeActive(o) ==
    RetBool(\E a \in DOMAIN o.status : o.status[a] = "active")

\* is_skip: some application known and every one of them active
DeployBundleStep_is_skip(o) ==
    IF DOMAIN o.status # {}
    THEN RetBool(AllActive(o.status))
    ELSE RetBool(FALSE)

DeployBundleStep_run(o) ==
    IF o.tag = "blocked" THEN RetBlocked
    ELSE IF o.b THEN RetResult(COMPLETED, NoMessage)
    ELSE RetResult(FAILED, MsgDeployBundle)

\* is_skip of DestroyModelStep, ModelStatusStep, WriteModelStatusStep and
\* WriteCharmLog: `not self.check_model_present(self.model)`
DestroyModelStep_is_skip(o) == RetBool(~check_model_present(o, Model))

DestroyModelStep_run(o) ==
    IF o.b THEN RetResult(COMPLETED, NoMessage)
    ELSE RetResult(FAILED, MsgDestroyModel)

ModelStatusStep_run(o) == RetResult(COMPLETED, MsgModelStatus)

\* `except Exception` turns the fault into FAILED with str(e)
WriteModelStatusStep_run(o) ==
    IF o.tag = "raise" THEN RetResult(FAILED, o.msg)
    ELSE RetResult(COMPLETED, MsgWriteModelStatus)

WriteCharmLog_run(cli) ==
    IF cli # "ok" THEN RetResult(FAILED, MsgCalledProcessError)
    ELSE RetResult(COMPLETED, MsgWriteCharmLog)

\* BaseStep.is_skip, which DeployControlPlaneStep does not override
DeployControlPlaneStep_is_skip == RetBool(FALSE)

\* TerraformHelper.apply: applies the plan or raises TerraformException
TerraformApply ==
    {[ok |-> TRUE, models |-> models \cup {Model},
      apps |-> [a \in AppNames |-> IF a \in DOMAIN apps THEN apps[a] ELSE "waiting"]],
     [ok |-> FALSE, models |-> models, apps |-> apps]}

\* run: only TerraformException is caught; o is the outcome of
\* wait_until_active when the apply succeeded
DeployControlPlaneStep_run(tf, o) ==
    IF ~tf.ok THEN RetResult(FAILED, MsgTerraform)
    ELSE IF o.tag = "blocked" THEN RetBlocked
    ELSE IF o.tag = "raise" THEN RetRaise("JujuError", o.msg)
    ELSE RetResult(COMPLETED, NoMessage)

(***************************************************************************)
(* Calls of the Steps' methods by the runner.                              *)
(***************************************************************************)
\* the runner is about to call `op` on a Step of one of `kinds`
AtCall(op, kinds) == pc = op /\ plan[idx].kind \in kinds

\* an entry of the log of calls: the method, the position of its Step in the
\* plan, what it gave back, the response its request to the daemon met and
\* whether the remote system it asked faulted
Entry(op, i, r, resp, fault) ==
    [op |-> op, i |-> i, ret |-> r, resp |-> resp, fault |-> fault]

\* the call is logged and hands `r` back to the runner
Called(op, r, resp, fault) ==
    /\ ret' = r
    /\ calls' = Append(calls, Entry(op, idx, r, resp, fault))
    /\ pc' = IF op = "is_skip" THEN "skip_ret" ELSE "run_ret"
    /\ UNCHANGED <<plan, idx, result, console, echoed, exitMessage, escaped, first, frame>>

\* a request to the cluster daemon that met outcome d
Requested(d) ==
    /\ response' = d.resp
    /\ raised' = BaseService_request(d.resp)
    /\ daemonInit' = d.init
    /\ members' = d.members
    /\ tokens' = d.tokens
    /\ UNCHANGED <<cliVars, jcontroller, jujuVars>>

\* an operation of JujuHelper that met outcome o
Helped(o) ==
    /\ jcontroller' = o.jc
    /\ models' = o.models
    /\ apps' = o.apps
    /\ UNCHANGED <<clusterVars, cliVars, requestVars>>

\* an is_skip that probes by attempting the bootstrap
Call_ClusterInitStep_is_skip_ByBootstrap ==
    /\ AtCall("is_skip", {"ClusterInitStep"})
    /\ \E d \in DaemonBootstrap(Fqdn) :
        /\ Requested(d)
        /\ Called("is_skip",
                  IF d.resp.kind = "ok" THEN RetBool(FALSE) ELSE RetBool(TRUE),
                  d.resp, d.resp.kind # "ok")

Call_ClusterInitStep_is_skip ==
    /\ AtCall("is_skip", {"ClusterInitStep"})
    /\ \E resp \in DaemonGetMembers :
        /\ Requested(Unchanged(resp))
        /\ Called("is_skip", ClusterInitStep_is_skip(plan[idx], resp), resp, resp.kind # "ok")

Call_ClusterAddNodeStep_is_skip ==
    /\ AtCall("is_skip", {"ClusterAddNodeStep"})
    /\ \E resp \in DaemonGetMembers :
        /\ Requested(Unchanged(resp))
        /\ Called("is_skip", ClusterAddNodeStep_is_skip(plan[idx], resp), resp, resp.kind # "ok")

Call_ClusterJoinNodeStep_is_skip ==
    /\ AtCall("is_skip", {"ClusterJoinNodeStep"})
    /\ \E resp \in DaemonGetMembers :
        /\ Requested(Unchanged(resp))
        /\ Called("is_skip", ClusterJoinNodeStep_is_skip(plan[idx], resp), resp, resp.kind # "ok")

Call_ClusterInitStep_run ==
    /\ AtCall("run", {"ClusterInitStep"})
    /\ \E d \in DaemonBootstrap(Fqdn) :
        /\ Requested(d)
        /\ Called("run", ClusterInitStep_run(plan[idx], d.resp), d.resp, d.resp.kind # "ok")

Call_ClusterAddNodeStep_run ==
    /\ AtCall("run", {"ClusterAddNodeStep"})
    /\ \E d \in DaemonAddNode(plan[idx].arg) :
        /\ Requested(d)
        /\ Called("run", ClusterAddNodeStep_run(plan[idx], d.resp), d.resp, d.resp.kind # "ok")

Call_ClusterJoinNodeStep_run ==
    /\ AtCall("run", {"ClusterJoinNodeStep"})
    /\ \E d \in DaemonJoinNode(Fqdn, plan[idx].arg) :
        /\ Requested(d)
        /\ Called("run", ClusterJoinNodeStep_run(plan[idx], d.resp), d.resp, d.resp.kind # "ok")

Call_BootstrapJujuStep_is_skip ==
    /\ AtCall("is_skip", {"BootstrapJujuStep"})
    /\ \E cli \in CliOutcomes : Called("is_skip", BootstrapJujuStep_is_skip(cli), NoResponse, cli # "ok")
    /\ UNCHANGED <<remoteVars, jcontroller, requestVars>>

Call_BootstrapJujuStep_run ==
    /\ AtCall("run", {"BootstrapJujuStep"})
    /\ \E cli \in CliOutcomes, boot \in CliOutcomes :
        LET r == BootstrapJujuStep_run(cli, boot) IN
        /\ Called("run", r.ret, NoResponse, cli # "ok" \/ boot # "ok")
        /\ controllerClouds' = r.cc
    /\ UNCHANGED <<clusterVars, k8sClouds, jcontroller, jujuVars, requestVars>>

Call_CreateModelStep_is_skip ==
    /\ AtCall("is_skip", {"CreateModelStep"})
    /\ \E o \in JujuHelper_get_models :
        /\ Helped([o EXCEPT !.models = models])
        /\ Called("is_skip", CreateModelStep_is_skip(o), NoResponse, o.fault)

Call_CreateModelStep_run ==
    /\ AtCall("run", {"CreateModelStep"})
    /\ \E o \in JujuHelper_add_model(Model) :
        /\ Helped(o)
        /\ Called("run", CreateModelStep_run(o), NoResponse, o.fault)

Call_DeployBundleStep_is_skip ==
    /\ AtCall("is_skip", {"DeployBundleStep"})
    /\ \E o \in JujuHelper_get_model_status(Model) :
        /\ Helped(o)
        /\ Called("is_skip", DeployBundleStep_is_skip(o), NoResponse, o.fault)

Call_DeployBundleStep_run ==
    /\ AtCall("run", {"DeployBundleStep"})
    /\ \E o \in JujuHelper_deploy_bundle(Model) :
        /\ Helped(o)
        /\ Called("run", DeployBundleStep_run(o), NoResponse, o.fault)

Call_DestroyModelStep_is_skip ==
    /\ AtCall("is_skip", ModelProbeKinds)
    /\ \E o \in JujuHelper_get_models :
        /\ Helped([o EXCEPT !.models = models])
        /\ Called("is_skip", DestroyModelStep_is_skip(o), NoResponse, o.fault)

Call_DestroyModelStep_run ==
    /\ AtCall("run", {"DestroyModelStep"})
    /\ \E o \in JujuHelper_destroy_model(Model) :
        /\ Helped(o)
        /\ Called("run", DestroyModelStep_run(o), NoResponse, o.fault)

Call_ModelStatusStep_run ==
    /\ AtCall("run", {"ModelStatusStep"})
    /\ \E o \in JujuHelper_get_model_status(Model) :
        /\ Helped(o)
        /\ Called("run", ModelStatusStep_run(o), NoResponse, o.fault)

Call_WriteModelStatusStep_run ==
    /\ AtCall("run", {"WriteModelStatusStep"})
    /\ \E o \in JujuHelper_get_model_status_full(Model) :
        /\ Helped(o)
        /\ Called("run", WriteModelStatusStep_run(o), NoResponse, o.fault)

Call_WriteCharmLog_run ==
    /\ AtCall("run", {"WriteCharmLog"})
    /\ \E cli \in CliOutcomes : Called("run", WriteCharmLog_run(cli), NoResponse, cli # "ok")
    /\ UNCHANGED <<remoteVars, jcontroller, requestVars>>

Call_DeployControlPlaneStep_is_skip ==
    /\ AtCall("is_skip", {"DeployControlPlaneStep"})
    /\ Called("is_skip", DeployControlPlaneStep_is_skip, NoResponse, FALSE)
    /\ UNCHANGED <<remoteVars, jcontroller, requestVars>>

Call_DeployControlPlaneStep_run ==
    /\ AtCall("run", {"DeployControlPlaneStep"})
    /\ \E tf \in TerraformApply :
        IF tf.ok
        THEN \E o \in JujuHelper_wait_until_active(Model, tf.models, tf.apps) :
                /\ Helped(o)
                /\ Called("run", DeployControlPlaneStep_run(tf, o), NoResponse, o.fault)
        ELSE /\ Called("run", DeployControlPlaneStep_run(tf, RetBlocked), NoResponse, TRUE)
             /\ UNCHANGED <<remoteVars, jcontroller, requestVars>>

(***************************************************************************)
(* The runner: the `for step in plan` loop of bootstrap()                  *)
(* (commands/bootstrap.py, lines 167-189).                                 *)
(***************************************************************************)
\* a progress line that reports every Step as done
Line_AlwaysDone(s, outcome) == <<Description(s), "done">>

Line(s, outcome) == <<Description(s), outcome>>

NoResult == [result_type |-> "", message |-> ""]

\* a loop that runs the next Step without asking it whether to skip
Advance_RunAhead ==
    /\ idx' = idx + 1
    /\ pc' = IF idx + 1 > Len(plan) THEN "finish" ELSE "run"

\* the next iteration of the loop, or the code after it
Advance ==
    /\ idx' = idx + 1
    /\ pc' = IF idx + 1 > Len(plan) THEN "finish" ELSE "is_skip"

\* a loop that swallows the exception and goes on with the next Step
Escape_GoOn ==
    /\ Advance
    /\ UNCHANGED <<result, console, echoed, exitMessage, escaped>>

\* an exception leaves bootstrap() through the loop
Escape ==
    /\ pc' = "crashed"
    /\ escaped' = ret.cls
    /\ UNCHANGED <<idx, result, console, echoed, exitMessage>>

\* a loop without the `continue` of line 174: a skipped Step is run as well
bootstrap_is_skip_return_NoContinue ==
    /\ pc = "skip_ret"
    /\ IF ret.tag = "raise" THEN Escape
       ELSE /\ console' = IF ret.b THEN Append(console, Line(plan[idx], "done"))
                          ELSE console
            /\ pc' = "run"
            /\ UNCHANGED <<idx, result, echoed, exitMessage, escaped>>
    /\ UNCHANGED <<plan, ret, calls, remoteVars, jcontroller, requestVars, first, frame>>

\* a loop that reports a FAILED Step and goes on with the next one
bootstrap_run_return_NoStop ==
    /\ pc = "run_ret"
    /\ ret.tag # "blocked"
    /\ IF ret.tag = "raise" THEN Escape
       ELSE /\ result' = [result_type |-> ret.rtype, message |-> ret.msg]
            /\ console' = Append(console,
                    Line(plan[idx], IF ret.rtype = FAILED THEN "failed" ELSE "done"))
            /\ Advance
            /\ UNCHANGED <<echoed, exitMessage, escaped>>
    /\ UNCHANGED <<plan, ret, calls, remoteVars, jcontroller, requestVars, first, frame>>

\* a loop that raises the error with the message of the result it held
\* before this Step ran
bootstrap_run_return_StaleMessage ==
    /\ pc = "run_ret"
    /\ ret.tag # "blocked"
    /\ IF ret.tag = "raise" THEN Escape
       ELSE /\ result' = [result_type |-> ret.rtype, message |-> ret.msg]
            /\ IF ret.rtype = FAILED
               THEN /\ console' = Append(console, Line(plan[idx], "failed"))
                    /\ exitMessage' = result.message
                    /\ pc' = "failed"
                    /\ UNCHANGED <<idx, echoed, escaped>>
               ELSE /\ console' = Append(console, Line(plan[idx], "done"))
                    /\ Advance
                    /\ UNCHANGED <<echoed, exitMessage, escaped>>
    /\ UNCHANGED <<plan, ret, calls, remoteVars, jcontroller, requestVars, first, frame>>

\* lines 171-176: is_skip() came back
bootstrap_is_skip_return ==
    /\ pc = "skip_ret"
    /\ IF ret.tag = "raise" THEN Escape
       ELSE IF ret.b
       THEN /\ console' = Append(console, Line(plan[idx], "done"))
            /\ Advance
            /\ UNCHANGED <<result, echoed, exitMessage, escaped>>
       ELSE /\ pc' = "run"
            /\ UNCHANGED <<idx, result, console, echoed, exitMessage, escaped>>
    /\ UNCHANGED <<plan, ret, calls, remoteVars, jcontroller, requestVars, first, frame>>

\* lines 177-186: run() came back
bootstrap_run_return ==
    /\ pc = "run_ret"
    /\ ret.tag # "blocked"
    /\ IF ret.tag = "raise" THEN Escape
       ELSE /\ result' = [result_type |-> ret.rtype, message |-> ret.msg]
            /\ IF ret.rtype = FAILED
               THEN /\ console' = Append(console, Line(plan[idx], "failed"))
                    /\ exitMessage' = ret.msg
                    /\ pc' = "failed"
                    /\ UNCHANGED <<idx, echoed, escaped>>
               ELSE /\ console' = Append(console, Line(plan[idx], "done"))
                    /\ Advance
                    /\ UNCHANGED <<echoed, exitMessage, escaped>>
    /\ UNCHANGED <<plan, ret, calls, remoteVars, jcontroller, requestVars, first, frame>>

\* no coroutine of JujuHelper in progress
NoFrame ==
    [op |-> "", timeout |-> 0, known |-> {}, apps_status |-> NoApps,
     apps_active |-> {}, elapsed |-> 0, timed_out |-> FALSE, polls |-> 0,
     listings |-> 0, listed |-> FALSE, rv |-> FALSE, fault |-> FALSE,
     units |-> 0, queried |-> <<>>, leader_unit |-> 0, invoked |-> <<>>,
     action_result |-> "empty", issued |-> <<>>]

\* no earlier invocation of the command
NoFirst == [ran |-> FALSE, minted |-> {}, members |-> {}, tokens |-> {},
            models |-> {}]

\* lines 188-189: the success message, then disconnect_controller()
bootstrap_finish ==
    /\ pc = "finish"
    /\ echoed' = TRUE
    /\ IF jcontroller = "None"
       THEN /\ pc' = "crashed"
            /\ escaped' = "AttributeError"
            /\ UNCHANGED jcontroller
       ELSE /\ pc' = "done"
            /\ jcontroller' = "Disconnected"
            /\ UNCHANGED escaped
    /\ UNCHANGED <<plan, idx, ret, result, console, exitMessage, calls,
                   remoteVars, requestVars, first, frame>>

(***************************************************************************)
(* The command: a plan run against a cluster and a controller in any of    *)
(* the states an earlier invocation or another node can have left.         *)
(***************************************************************************)
\* a cold node; a cold node about to join the cluster of node-b with a token;
\* a cold node whose name that cluster already holds;
\* a bootstrapped node; one that issued a token for node-b; a cluster of both
ClusterStates ==
    {[init |-> FALSE, members |-> {}, tokens |-> {}],
     [init |-> FALSE, members |-> {"node-b"}, tokens |-> {"node-a"}],
     [init |-> FALSE, members |-> {"node-a", "node-b"}, tokens |-> {}],
     [init |-> TRUE, members |-> {"node-a"}, tokens |-> {}],
     [init |-> TRUE, members |-> {"node-a"}, tokens |-> {"node-b"}],
     [init |-> TRUE, members |-> {"node-a", "node-b"}, tokens |-> {}]}

\* no k8s cloud; the configured cloud without and with a controller; a
\* controller on another k8s cloud only
CliStates ==
    {[k8s |-> {}, cc |-> {}],
     [k8s |-> {Cloud}, cc |-> {}],
     [k8s |-> {Cloud}, cc |-> {Cloud}],
     [k8s |-> {OtherK8sCloud}, cc |-> {OtherK8sCloud}]}

\* no model; the model without applications, with one application still
\* waiting, with every application active
JujuStates ==
    {[models |-> {}, apps |-> NoApps],
     [models |-> {Model}, apps |-> NoApps],
     [models |-> {Model}, apps |-> [a \in AppNames |->
                                     IF a = "keystone" THEN "active" ELSE "waiting"]],
     [models |-> {Model}, apps |-> AllApps("active")]}

\* the remote system the Steps of a class talk to
Subsystem(s) ==
    IF s.kind \in ClusterKinds THEN "cluster"
    ELSE IF s.kind = "BootstrapJujuStep" THEN "cli"
    ELSE "controller"

Touches(p, sys) == \E i \in 1..Len(p) : Subsystem(p[i]) = sys

ColdCluster == [init |-> FALSE, members |-> {}, tokens |-> {}]
ColdCli == [k8s |-> {}, cc |-> {}]
ColdJuju == [models |-> {}, apps |-> NoApps]

\* A system no Step of the plan talks to is neither read nor written by the
\* command; it starts cold.  The members of a cluster this node has not
\* joined are read by join_node only: without a ClusterJoinNodeStep the
\* cluster that already holds the node's name is not among the starts.
Init ==
    /\ plan \in Plans
    /\ idx = 1
    /\ pc = "is_skip"
    /\ ret = NoRet
    /\ result = NoResult
    /\ console = <<>>
    /\ echoed = FALSE
    /\ exitMessage = ""
    /\ escaped = ""
    /\ calls = <<>>
    /\ \E c \in ClusterStates :
        /\ Touches(plan, "cluster") \/ c = ColdCluster
        /\ \/ c.init
           \/ Fqdn \notin c.members
           \/ \E i \in 1..Len(plan) : plan[i].kind = "ClusterJoinNodeStep"
        /\ daemonInit = c.init /\ members = c.members /\ tokens = c.tokens
    /\ \E c \in CliStates :
        /\ Touches(plan, "cli") \/ c = ColdCli
        /\ k8sClouds = c.k8s /\ controllerClouds = c.cc
    /\ \E j \in JujuStates :
        /\ Touches(plan, "controller") \/ j = ColdJuju
        /\ models = j.models /\ apps = j.apps
    /\ jcontroller = "None"
    /\ response = NoResponse
    /\ raised = NotRaised
    /\ first = NoFirst
    /\ frame = NoFrame

Next ==
    \/ Call_ClusterInitStep_is_skip
    \/ Call_ClusterAddNodeStep_is_skip
    \/ Call_ClusterJoinNodeStep_is_skip
    \/ Call_ClusterInitStep_run
    \/ Call_ClusterAddNodeStep_run
    \/ Call_ClusterJoinNodeStep_run
    \/ Call_BootstrapJujuStep_is_skip
    \/ Call_BootstrapJujuStep_run
    \/ Call_CreateModelStep_is_skip
    \/ Call_CreateModelStep_run
    \/ Call_DeployBundleStep_is_skip
    \/ Call_DeployBundleStep_run
    \/ Call_DestroyModelStep_is_skip
    \/ Call_DestroyModelStep_run
    \/ Call_ModelStatusStep_run
    \/ Call_WriteModelStatusStep_run
    \/ Call_WriteCharmLog_run
    \/ Call_DeployControlPlaneStep_is_skip
    \/ Call_DeployControlPlaneStep_run
    \/ bootstrap_is_skip_return
    \/ bootstrap_run_return
    \/ bootstrap_finish

Spec == Init /\ [][Next]_vars

(***************************************************************************)
(* The command invoked a second time with the same plan, right after an    *)
(* invocation in which every Step was skipped or completed.  The remote    *)
(* systems are as the first invocation left them; the new process starts   *)
(* with a fresh plan loop and a fresh JujuHelper.                          *)
(***************************************************************************)
\* every Step of the plan was skipped or completed: the loop ran to its end
AllStepsDone == pc = "done" \/ (pc = "crashed" /\ echoed)

\* the names add_node returned a token for in this invocation
Minted ==
    {plan[calls[j].i].arg : j \in {k \in 1..Len(calls) :
        /\ calls[k].op = "run"
        /\ plan[calls[k].i].kind = "ClusterAddNodeStep"
        /\ calls[k].resp.kind = "ok"}}

bootstrap_again ==
    /\ AllStepsDone
    /\ ~first.ran
    /\ first' = [ran |-> TRUE, minted |-> Minted, members |-> members,
                 tokens |-> tokens, models |-> models]
    /\ idx' = 1
    /\ pc' = "is_skip"
    /\ ret' = NoRet
    /\ result' = NoResult
    /\ console' = <<>>
    /\ echoed' = FALSE
    /\ exitMessage' = ""
    /\ escaped' = ""
    /\ calls' = <<>>
    /\ jcontroller' = "None"
    /\ response' = NoResponse
    /\ raised' = NotRaised
    /\ UNCHANGED <<plan, remoteVars, frame>>

NextAgain == Next \/ bootstrap_again

SpecAgain == Init /\ [][NextAgain]_vars

(***************************************************************************)
(* The polling coroutines of JujuHelper, step by step: get_model_status    *)
(* and destroy_model(wait=True) called on their own against a controller   *)
(* whose applications and models change while the coroutine sleeps.        *)
(***************************************************************************)
\* longest timeout handed to get_model_status
MaxTimeout == 2
\* most time units one sleep of a unit is seen to take by time.time()
MaxSleepUnits == 2
\* asyncio.sleep(1.0) of get_model_status
PollInterval == 1
\* range(0, 30) and asyncio.sleep(10.0) of destroy_model
DestroyAttempts == 30
DestroySleep == 10

AppStatuses == {"active", "waiting"}
\* the applications a model can hold and their statuses
AppsOfModel == UNION {[D -> AppStatuses] : D \in SUBSET AppNames}

\* a deadline that never passes when timeout is 0
TimedOut_ZeroIsForever(elapsed, timeout) == timeout # 0 /\ elapsed > timeout

\* a deadline that allows one more interval
TimedOut_OneLate(elapsed, timeout) == elapsed > timeout + PollInterval

\* `timed_out = int(time.time() - start) > timeout`
TimedOut(elapsed, timeout) == elapsed > timeout

\* get_model_status up to the loop: connect, get_model, the known applications
JujuHelper_get_model_status_enter ==
    /\ pc = "gms_call"
    /\ \E c \in Connect, ok \in BOOLEAN :
        /\ jcontroller' = c.jc
        /\ IF Usable(c) /\ ok /\ Model \in models
           THEN /\ frame' = [frame EXCEPT !.known = DOMAIN apps]
                /\ pc' = "gms_sleep"
           ELSE /\ frame' = [frame EXCEPT !.fault = TRUE]
                /\ pc' = "gms_return"
    /\ UNCHANGED <<plan, idx, ret, result, console, echoed, exitMessage, escaped,
                   calls, remoteVars, requestVars, first>>

\* `await asyncio.sleep(1.0)` and the reading of the clock: at least one unit
\* passes, and the applications of the model change as they will
JujuHelper_get_model_status_sleep ==
    /\ pc = "gms_sleep"
    /\ \E d \in PollInterval..MaxSleepUnits :
        frame' = [frame EXCEPT !.elapsed = @ + d,
                               !.timed_out = TimedOut(frame.elapsed + d, frame.timeout)]
    /\ apps' \in AppsOfModel
    /\ pc' = "gms_poll"
    /\ UNCHANGED <<plan, idx, ret, result, console, echoed, exitMessage, escaped,
                   calls, clusterVars, cliVars, models, jcontroller, requestVars,
                   first>>

\* the `for application in apps` loop of one poll: the status of every known
\* application the model still holds is recorded, and the active ones are
\* added to apps_active
Poll(f) ==
    LET seen == f.known \cap DOMAIN apps
        st == [a \in DOMAIN f.apps_status \cup seen |->
                  IF a \in seen THEN apps[a] ELSE f.apps_status[a]]
    IN [f EXCEPT !.apps_status = st,
                 !.apps_active = @ \cup {a \in seen : apps[a] = "active"},
                 !.polls = @ + 1]

\* one poll and the two `break` tests after it
JujuHelper_get_model_status_poll ==
    /\ pc = "gms_poll"
    /\ frame' = Poll(frame)
    /\ pc' = IF Cardinality(frame'.known) = Cardinality(frame'.apps_active)
             THEN "gms_return"
             ELSE IF frame.timed_out THEN "gms_return"
             ELSE "gms_sleep"
    /\ UNCHANGED <<plan, idx, ret, result, console, echoed, exitMessage, escaped,
                   calls, remoteVars, jcontroller, requestVars, first>>

\* a destroy_model without the `for ... else: return False`
AfterSleep_NoBudget(n) == "dm_list"

\* the end of one round of the `for i in range(0, 30)` loop
AfterSleep(n) == IF n >= DestroyAttempts THEN "dm_return" ELSE "dm_list"

\* destroy_model up to the loop: connect and controller.destroy_models; the
\* controller may remove the model at once
JujuHelper_destroy_model_enter ==
    /\ pc = "dm_call"
    /\ \E c \in Connect, ok \in BOOLEAN :
        /\ jcontroller' = c.jc
        /\ IF Usable(c) /\ ok /\ Model \in models
           THEN /\ pc' = "dm_list"
                /\ \E ms \in {models, models \ {Model}} : models' = ms
                /\ UNCHANGED frame
           ELSE /\ frame' = [frame EXCEPT !.fault = TRUE, !.rv = FALSE]
                /\ pc' = "dm_return"
                /\ UNCHANGED models
    /\ UNCHANGED <<plan, idx, ret, result, console, echoed, exitMessage, escaped,
                   calls, clusterVars, cliVars, apps, requestVars, first>>

\* `models = await self.get_models()` and the test of the listing: get_models
\* gives [] when the controller faults
JujuHelper_destroy_model_list ==
    /\ pc = "dm_list"
    /\ \E ok \in BOOLEAN :
        LET listing == IF ok THEN models ELSE {} IN
        /\ frame' = [frame EXCEPT !.listings = @ + 1,
                                  !.listed = ok,
                                  !.fault = @ \/ ~ok,
                                  !.rv = Model \notin listing]
        /\ pc' = IF Model \notin listing THEN "dm_return" ELSE "dm_sleep"
    /\ UNCHANGED <<plan, idx, ret, result, console, echoed, exitMessage, escaped,
                   calls, remoteVars, jcontroller, requestVars, first>>

\* `await asyncio.sleep(10.0)`; the controller may remove the model meanwhile
JujuHelper_destroy_model_sleep ==
    /\ pc = "dm_sleep"
    /\ frame' = [frame EXCEPT !.elapsed = @ + DestroySleep]
    /\ \E ms \in {models, models \ {Model}} : models' = ms
    /\ pc' = AfterSleep(frame.listings)
    /\ UNCHANGED <<plan, idx, ret, result, console, echoed, exitMessage, escaped,
                   calls, clusterVars, cliVars, apps, jcontroller, requestVars,
                   first>>

\* a wait that is content with one active application
block_until_condition_SomeActive(as) == \E a \in DOMAIN as : as[a] = "active"

\* the lambda handed to model.block_until: every unit of every application
\* is active (an application's status stands for its units')
block_until_condition(as) == \A a \in DOMAIN as : as[a] = "active"

\* deploy_bundle up to the wait: connect, get_model and model.deploy, which
\* creates the applications of the bundle in whatever state their units start
JujuHelper_deploy_bundle_enter ==
    /\ pc = "db_call"
    /\ \E c \in Connect, ok \in BOOLEAN :
        /\ jcontroller' = c.jc
        /\ IF Usable(c) /\ ok /\ Model \in models
           THEN /\ apps' \in [AppNames -> AppStatuses]
                /\ pc' = "db_wait"
                /\ UNCHANGED frame
           ELSE /\ frame' = [frame EXCEPT !.fault = TRUE, !.rv = FALSE]
                /\ pc' = "db_return"
                /\ UNCHANGED apps
    /\ UNCHANGED <<plan, idx, ret, result, console, echoed, exitMessage, escaped,
                   calls, clusterVars, cliVars, models, requestVars, first>>

\* `await model.block_until(...)`: returns once the condition holds; until
\* then the units change as they will, or a fault ends the wait
JujuHelper_deploy_bundle_wait ==
    /\ pc = "db_wait"
    /\ IF block_until_condition(apps)
       THEN /\ frame' = [frame EXCEPT !.rv = TRUE]
            /\ pc' = "db_return"
            /\ UNCHANGED apps
       ELSE \/ /\ apps' \in [AppNames -> AppStatuses]
               /\ frame' = [frame EXCEPT !.polls = 1]
               /\ UNCHANGED pc
            \/ /\ frame' = [frame EXCEPT !.fault = TRUE, !.rv = FALSE]
               /\ pc' = "db_return"
               /\ UNCHANGED apps
    /\ UNCHANGED <<plan, idx, ret, result, console, echoed, exitMessage, escaped,
                   calls, clusterVars, cliVars, models, jcontroller, requestVars,
                   first>>

\* the most units an application has
MaxUnits == 2

\* the application run_action is asked about
RunApp == "keystone"

\* what a unit's is_leader_from_status() gives: true, false or a fault
LeaderAnswers == {"leader", "follower", "fault"}

\* a loop that takes whichever unit answered
AfterAnswer_AnyUnit(ans) ==
    IF ans = "fault" THEN "ra_return" ELSE "ra_run"

\* the body of `for unit in application.units`: the first unit that says it
\* is the leader ends the loop, a fault ends the method through its handler
AfterAnswer(ans) ==
    CASE ans = "leader" -> "ra_run"
      [] ans = "follower" -> "ra_query"
      [] ans = "fault" -> "ra_return"

\* run_action up to the loop: connect, get_model, applications.get(app);
\* `.units` of None raises AttributeError, which the handler catches
JujuHelper_run_action_enter ==
    /\ pc = "ra_call"
    /\ \E c \in Connect, ok \in BOOLEAN :
        /\ jcontroller' = c.jc
        /\ IF ~(Usable(c) /\ ok /\ Model \in models)
           THEN /\ frame' = [frame EXCEPT !.fault = TRUE]
                /\ pc' = "ra_return"
           ELSE IF RunApp \notin DOMAIN apps
           THEN /\ pc' = "ra_return"
                /\ UNCHANGED frame
           ELSE /\ \E n \in 0..MaxUnits : frame' = [frame EXCEPT !.units = n]
                /\ pc' = "ra_query"
    /\ UNCHANGED <<plan, idx, ret, result, console, echoed, exitMessage, escaped,
                   calls, remoteVars, requestVars, first>>

\* one turn of the loop, or `if not leader_unit: return action_result`
\* when the units are exhausted
JujuHelper_run_action_query ==
    /\ pc = "ra_query"
    /\ LET k == Len(frame.queried) + 1 IN
       IF k > frame.units
       THEN /\ pc' = "ra_return"
            /\ UNCHANGED frame
       ELSE \E ans \in LeaderAnswers :
            /\ pc' = AfterAnswer(ans)
            /\ frame' = [frame EXCEPT
                   !.queried = Append(@, [unit |-> k, ans |-> ans]),
                   !.leader_unit = IF pc' = "ra_run" THEN k ELSE @,
                   !.fault = (ans = "fault")]
    /\ UNCHANGED <<plan, idx, ret, result, console, echoed, exitMessage, escaped,
                   calls, remoteVars, jcontroller, requestVars, first>>

\* leader_unit.run_action(...) and action.wait(): the results, or a fault
\* that the handler turns into the empty mapping
JujuHelper_run_action_run ==
    /\ pc = "ra_run"
    /\ \E ok \in BOOLEAN :
        frame' = [frame EXCEPT
                    !.invoked = Append(@, frame.leader_unit),
                    !.action_result = IF ok THEN "results" ELSE "empty",
                    !.fault = ~ok]
    /\ pc' = "ra_return"
    /\ UNCHANGED <<plan, idx, ret, result, console, echoed, exitMessage, escaped,
                   calls, remoteVars, jcontroller, requestVars, first>>

\* a run that bootstraps whenever Juju knows some k8s cloud
ReachesBootstrap_AnyK8sCloud(cli) == cli = "ok" /\ k8sClouds # {}

\* BootstrapJujuStep.run gets past its two early returns: `juju clouds`
\* answered, some cloud is of type k8s and the configured cloud is one
ReachesBootstrap(cli) ==
    cli = "ok" /\ k8sClouds # {} /\ Cloud \in k8sClouds

\* BootstrapJujuStep.run up to the bootstrap command: `juju clouds` and the
\* two tests on its answer
BootstrapJujuStep_run_clouds ==
    /\ pc = "bj_clouds"
    /\ \E cli \in CliOutcomes :
        /\ frame' = [frame EXCEPT !.issued = Append(@, "clouds"),
                                  !.fault = (cli # "ok")]
        /\ IF ReachesBootstrap(cli)
           THEN /\ pc' = "bj_bootstrap"
                /\ UNCHANGED ret
           ELSE /\ pc' = "bj_return"
                /\ ret' = BootstrapJujuStep_run(cli, "ok").ret
    /\ UNCHANGED <<plan, idx, result, console, echoed, exitMessage, escaped,
                   calls, remoteVars, jcontroller, requestVars, first>>

\* `juju bootstrap <cloud>` and the Result made of its exit status
BootstrapJujuStep_run_bootstrap ==
    /\ pc = "bj_bootstrap"
    /\ \E boot \in CliOutcomes :
        LET r == BootstrapJujuStep_run("ok", boot) IN
        /\ frame' = [frame EXCEPT !.issued = Append(@, "bootstrap"),
                                  !.fault = (boot # "ok")]
        /\ ret' = r.ret
        /\ controllerClouds' = r.cc
    /\ pc' = "bj_return"
    /\ UNCHANGED <<plan, idx, result, console, echoed, exitMessage, escaped,
                   calls, clusterVars, k8sClouds, jujuVars, jcontroller,
                   requestVars, first>>

\* CreateModelStep.run on a JujuHelper that may not have connected yet:
\* add_model and the Result made of what it returns
CreateModelStep_run_call ==
    /\ pc = "am_call"
    /\ \E o \in JujuHelper_add_model(Model) :
        /\ jcontroller' = o.jc
        /\ models' = o.models
        /\ frame' = [frame EXCEPT !.rv = o.b, !.fault = o.fault]
        /\ ret' = CreateModelStep_run(o)
    /\ pc' = "am_return"
    /\ UNCHANGED <<plan, idx, result, console, echoed, exitMessage, escaped,
                   calls, clusterVars, cliVars, apps, requestVars, first>>

InitHelper ==
    /\ \E op \in {"get_model_status", "destroy_model", "add_model",
                   "deploy_bundle", "run_action", "bootstrap_juju"} :
        /\ pc = (CASE op = "get_model_status" -> "gms_call"
                   [] op = "destroy_model" -> "dm_call"
                   [] op = "add_model" -> "am_call"
                   [] op = "deploy_bundle" -> "db_call"
                   [] op = "run_action" -> "ra_call"
                   [] op = "bootstrap_juju" -> "bj_clouds")
        /\ \E t \in 0..MaxTimeout :
            /\ frame = [NoFrame EXCEPT !.op = op, !.timeout = t]
            /\ op # "get_model_status" => t = 0
    /\ models \in {{}, {Model}}
    /\ apps \in AppsOfModel
    /\ models = {} => apps = NoApps
    /\ jcontroller \in {"None", "Connected"}
    /\ plan = <<>>
    /\ idx = 1
    /\ ret = NoRet
    /\ result = NoResult
    /\ console = <<>>
    /\ echoed = FALSE
    /\ exitMessage = ""
    /\ escaped = ""
    /\ calls = <<>>
    /\ daemonInit = FALSE /\ members = {} /\ tokens = {}
    /\ \E c \in CliStates :
        /\ frame.op = "bootstrap_juju" \/ c = ColdCli
        /\ k8sClouds = c.k8s /\ controllerClouds = c.cc
    /\ response = NoResponse
    /\ raised = NotRaised
    /\ first = NoFirst

NextHelper ==
    \/ JujuHelper_get_model_status_enter
    \/ JujuHelper_get_model_status_sleep
    \/ JujuHelper_get_model_status_poll
    \/ JujuHelper_destroy_model_enter
    \/ JujuHelper_destroy_model_list
    \/ JujuHelper_destroy_model_sleep
    \/ CreateModelStep_run_call
    \/ JujuHelper_deploy_bundle_enter
    \/ JujuHelper_deploy_bundle_wait
    \/ JujuHelper_run_action_enter
    \/ JujuHelper_run_action_query
    \/ JujuHelper_run_action_run
    \/ BootstrapJujuStep_run_clouds
    \/ BootstrapJujuStep_run_bootstrap

SpecHelper == InitHelper /\ [][NextHelper]_vars

(***************************************************************************)
(* The translation of a single response by _request, for every response    *)
(* whose error string has at most MaxErrLen fragments.                     *)
(***************************************************************************)
Responses ==
    {OkResponse({}), NoErrFieldResponse}
    \cup {ErrResponse(e) : e \in ErrorStrings}
    \cup {TransportFailure(d) : d \in FaultDescs}

InitRequest ==
    /\ response \in Responses
    /\ raised = NotRaised
    /\ pc = "request"
    /\ plan = <<>>
    /\ idx = 1
    /\ ret = NoRet
    /\ result = NoResult
    /\ console = <<>>
    /\ echoed = FALSE
    /\ exitMessage = ""
    /\ escaped = ""
    /\ calls = <<>>
    /\ daemonInit = FALSE /\ members = {} /\ tokens = {}
    /\ k8sClouds = {} /\ controllerClouds = {}
    /\ models = {} /\ apps = NoApps
    /\ jcontroller = "None"
    /\ first = NoFirst
    /\ frame = NoFrame

\* one call of _request on the response
Call_BaseService_request ==
    /\ pc = "request"
    /\ raised' = BaseService_request(response)
    /\ pc' = "requested"
    /\ UNCHANGED <<plan, idx, ret, result, console, echoed, exitMessage, escaped,
                   calls, remoteVars, jcontroller, response, first, frame>>

NextRequest == Call_BaseService_request

SpecRequest == InitRequest /\ [][NextRequest]_vars

(***************************************************************************)
(* Properties of the runner.                                               *)
(***************************************************************************)
CallsOf(op, i) == {j \in 1..Len(calls) : calls[j].op = op /\ calls[j].i = i}
IsFailed(r) == r.tag = "result" /\ r.rtype = FAILED
AtMostOne(S) == \A a \in S : \A b \in S : a = b

\* C1: stop on first failure: a call of run() that returned a FAILED result is
\* the last call the runner makes on any Step of the plan in that invocation.
C1_StopOnFirstFailure ==
    \A j \in 1..Len(calls) :
        (calls[j].op = "run" /\ IsFailed(calls[j].ret)) => j = Len(calls)

\* C1 witness: the plan stopped on a FAILED Step with a Step still ahead.
C1_Witness ==
    /\ pc = "failed"
    /\ idx < Len(plan)
    /\ IsFailed(calls[Len(calls)].ret)

\* C2: strict ordering: the calls go through the plan in list order, one Step
\* at a time, each Step's is_skip() first and its run() only right after that
\* is_skip() has returned.
C2_StrictOrdering ==
    \A j \in 1..Len(calls) :
        /\ calls[j].op = "is_skip" =>
              calls[j].i = (IF j = 1 THEN 1 ELSE calls[j - 1].i + 1)
        /\ calls[j].op = "run" =>
              /\ j > 1
              /\ calls[j - 1].op = "is_skip"
              /\ calls[j - 1].i = calls[j].i
              /\ calls[j - 1].ret.tag = "bool"

\* C2 witness: two Steps were both probed and run, in order.
C2_Witness ==
    /\ Len(calls) = 4
    /\ calls[2].op = "run" /\ calls[2].i = 1
    /\ calls[4].op = "run" /\ calls[4].i = 2

\* C3: skip-then-run without retries: every Step the runner reached has had
\* is_skip() called exactly once, run() at most once, run() never after
\* is_skip() returned true and exactly once after it returned false when the
\* runner went on; after a skipped Step the runner goes on to the next Step.
C3_SkipThenRunOnce ==
    \A i \in 1..Len(plan) :
        LET probes == CallsOf("is_skip", i)
            runs == CallsOf("run", i)
        IN /\ AtMostOne(probes)
           /\ AtMostOne(runs)
           /\ (i < idx \/ (i = idx /\ pc # "is_skip")) => probes # {}
           /\ \A j \in probes :
                 /\ (calls[j].ret.tag = "bool" /\ calls[j].ret.b) =>
                       /\ runs = {}
                       /\ idx > i \/ pc = "skip_ret"
                 /\ (calls[j].ret.tag = "bool" /\ ~calls[j].ret.b /\ idx > i) =>
                       runs # {}
           /\ runs # {} =>
                 \E j \in probes : calls[j].ret.tag = "bool" /\ ~calls[j].ret.b

\* C3 witness: the first Step was skipped, the second was probed and run.
C3_Witness ==
    /\ Len(calls) = 3
    /\ calls[1].ret.tag = "bool" /\ calls[1].ret.b
    /\ calls[2].op = "is_skip" /\ calls[2].i = 2
    /\ calls[3].op = "run" /\ calls[3].i = 2

\* C4 (as claimed): a fault of the remote system met inside a Step's run()
\* comes back to the runner as a FAILED result, never as a raised fault.
\* Stated for the faults of a daemon or controller that answers with an error
\* or cannot be reached.
C4_RunFaultsBecomeFailed ==
    \A j \in 1..Len(calls) :
        (/\ calls[j].op = "run"
         /\ calls[j].fault
         /\ calls[j].resp.kind # "noerrfield") => calls[j].ret.tag # "raise"

\* C5: when the plan stops on a failure, the Step reported is the first FAILED
\* one: the last progress line is its description with "failed", the command
\* ends with an error carrying exactly its result message, and the success
\* message is not printed.
C5_FirstFailureReported ==
    /\ pc = "failed" =>
          LET last == calls[Len(calls)] IN
          /\ last.op = "run" /\ last.i = idx /\ IsFailed(last.ret)
          /\ \A j \in 1..(Len(calls) - 1) : ~IsFailed(calls[j].ret)
          /\ console[Len(console)] = <<Description(plan[idx]), "failed">>
          /\ exitMessage = last.ret.msg
          /\ ~echoed
    /\ \A j \in 1..Len(calls) :
          IsFailed(calls[j].ret) => /\ pc \in {"run_ret", "failed"}
                                    /\ ~echoed

\* C5 witness: the second Step failed after the first completed with another
\* message.
C5_Witness ==
    /\ pc = "failed"
    /\ idx = 2
    /\ exitMessage # ""
    /\ calls[2].op = "run" /\ calls[2].ret.msg # exitMessage
    /\ calls[2].ret.msg # ""

\* C6 (as claimed): every FAILED result a Step's run() produced carries a
\* non-empty message.
C6_FailedHasMessage ==
    \A j \in 1..Len(calls) :
        IsFailed(calls[j].ret) => calls[j].ret.msg # ""

\* C7 (as claimed): an is_skip() whose probe failed because the remote system
\* answered with an error or could not be reached returns false and does not
\* raise.
C7_FailedProbeMeansRun ==
    \A j \in 1..Len(calls) :
        (/\ calls[j].op = "is_skip"
         /\ calls[j].fault
         /\ calls[j].resp.kind # "noerrfield") => calls[j].ret = RetBool(FALSE)

\* C8: is_skip() is read-only on remote state: a call of is_skip() of any Step
\* leaves the daemon's members and tokens, the clouds and controllers and the
\* controller's models and application statuses as they were.
C8_IsSkipReadOnly == [][pc = "is_skip" => UNCHANGED remoteVars]_vars

\* C8 witness: the same Step was probed twice against a cluster that has a
\* member and an outstanding token.
C8_Witness ==
    /\ Len(calls) = 2
    /\ calls[1].op = "is_skip" /\ calls[2].op = "is_skip"
    /\ plan[1] = plan[2]
    /\ members # {} /\ tokens # {}

\* the name a cluster Step looks for among the members
ProbedName(s) == IF s.kind = "ClusterAddNodeStep" THEN s.arg ELSE Fqdn

\* C9: membership decides skipping: is_skip() of a cluster Step returns true
\* iff the daemon returned a member list that contains the Step's name; and
\* once bootstrap has succeeded in a ClusterInitStep, a later ClusterInitStep
\* is skipped when its probe returns and bootstrap is not requested again.
C9_MembershipDecidesSkip ==
    /\ \A j \in 1..Len(calls) :
          (/\ calls[j].op = "is_skip"
           /\ plan[calls[j].i].kind \in ClusterKinds
           /\ calls[j].ret.tag = "bool") =>
              (calls[j].ret.b <=>
                  /\ calls[j].resp.kind = "ok"
                  /\ ProbedName(plan[calls[j].i]) \in calls[j].resp.body)
    /\ \A j \in 1..Len(calls) : \A k \in (j + 1)..Len(calls) :
          (/\ calls[j].op = "run"
           /\ plan[calls[j].i].kind = "ClusterInitStep"
           /\ calls[j].ret.rtype = COMPLETED
           /\ plan[calls[k].i].kind = "ClusterInitStep") =>
              /\ calls[k].op = "is_skip"
              /\ calls[k].ret.tag = "bool" => calls[k].ret.b

\* C9 witness: on a cold node bootstrap succeeded and the next ClusterInitStep
\* was skipped.
C9_Witness ==
    /\ Len(calls) = 3
    /\ plan[1].kind = "ClusterInitStep" /\ plan[2].kind = "ClusterInitStep"
    /\ calls[1].resp.kind = "error"
    /\ calls[2].op = "run" /\ calls[2].ret.rtype = COMPLETED
    /\ calls[3].op = "is_skip" /\ calls[3].ret.tag = "bool" /\ calls[3].ret.b

(***************************************************************************)
(* Properties of the error translation.                                    *)
(***************************************************************************)
\* the table of §7 in its order: phrase, fault kind
Table ==
    << [pattern |-> F_remote, cls |-> "NodeAlreadyExistsException"],
       [pattern |-> F_join, cls |-> "NodeJoinException"],
       [pattern |-> F_unique, cls |-> "TokenAlreadyGeneratedException"],
       [pattern |-> F_daemon, cls |-> "ClusterServiceUnavailableException"] >>

Matching(error) == {k \in 1..Len(Table) : Contains(Table[k].pattern, error)}

\* C10: first match wins: for every error string of a non-2xx response exactly
\* one fault is raised, of the kind of the earliest rule of the table whose
\* phrase occurs in the string, and the transport error itself when no rule
\* matches.
C10_FirstMatchWins ==
    (pc = "requested" /\ response.kind = "error") =>
        /\ raised.tag = "raise"
        /\ IF Matching(response.error) = {}
           THEN raised.cls = "HTTPError"
           ELSE \E k \in Matching(response.error) :
                   /\ \A m \in Matching(response.error) : k <= m
                   /\ raised.cls = Table[k].cls

\* C10 witness: an error string holding two phrases, the later rule's first.
C10_Witness ==
    /\ pc = "requested"
    /\ response.kind = "error"
    /\ response.error = <<F_daemon, F_remote>>
    /\ raised.cls = "NodeAlreadyExistsException"

(***************************************************************************)
(* Properties of re-invocation.                                            *)
(***************************************************************************)
\* run() of a ClusterAddNodeStep, as logged
IsAddNodeRun(j) ==
    calls[j].op = "run" /\ plan[calls[j].i].kind = "ClusterAddNodeStep"

\* C11: a token requested twice for the same node name: once add_node has
\* returned a token for a name, a later add_node for that name is not answered
\* with a token and leaves the outstanding tokens as they were; whenever the
\* daemon answers add_node with its duplicate-token error, run() of the
\* ClusterAddNodeStep returns FAILED with a non-empty message and does not
\* raise.
C11_SecondTokenRequestFails ==
    \A k \in 1..Len(calls) :
        IsAddNodeRun(k) =>
            /\ \A j \in 1..(k - 1) :
                  (/\ IsAddNodeRun(j)
                   /\ plan[calls[j].i].arg = plan[calls[k].i].arg
                   /\ calls[j].resp.kind = "ok") =>
                      /\ calls[k].resp.kind # "ok"
                      /\ plan[calls[k].i].arg \in tokens
            /\ (calls[k].resp.kind = "error" /\ Contains(F_unique, calls[k].resp.error)) =>
                  /\ IsFailed(calls[k].ret)
                  /\ calls[k].ret.msg # ""

\* C11 witness: the first request returned a token, the second met the
\* duplicate-token error and the Step came back FAILED.
C11_Witness ==
    /\ Len(calls) = 4
    /\ IsAddNodeRun(2) /\ calls[2].ret.rtype = COMPLETED
    /\ IsAddNodeRun(4) /\ Contains(F_unique, calls[4].resp.error)
    /\ IsFailed(calls[4].ret)
    /\ pc = "failed"

\* C12 (as claimed): a re-run does not request an already-issued join token
\* again: when an earlier invocation of the same plan ran to its end and
\* add_node returned a token for a name that has not joined since, run() of a
\* ClusterAddNodeStep for that name is not called in the second invocation.
C12_NoSecondTokenRequest ==
    first.ran =>
        \A k \in 1..Len(calls) :
            (/\ IsAddNodeRun(k)
             /\ plan[calls[k].i].arg \in first.minted) =>
                plan[calls[k].i].arg \in members

\* C13: a re-run does not deploy an active workload again: is_skip() of a
\* DeployBundleStep returns (it does not raise or block); it returns true
\* exactly when its status query met no fault and the model has at least one
\* application and every application is active, false otherwise; and a
\* DeployBundleStep whose is_skip() returned true is not run in that
\* invocation.
C13_ActiveWorkloadNotRedeployed ==
    /\ (pc = "skip_ret" /\ plan[idx].kind = "DeployBundleStep") =>
          LET e == calls[Len(calls)] IN
          /\ e.ret.tag = "bool"
          /\ e.ret.b <=> (/\ ~e.fault
                          /\ DOMAIN apps # {}
                          /\ \A a \in DOMAIN apps : apps[a] = "active")
    /\ \A j \in 1..Len(calls) :
          (/\ calls[j].op = "is_skip"
           /\ plan[calls[j].i].kind = "DeployBundleStep"
           /\ calls[j].ret.b) => CallsOf("run", calls[j].i) = {}

\* C13 witness: the workload was active, the DeployBundleStep was skipped and
\* the plan ran to its end without a call of run().
C13_Witness ==
    /\ pc = "done"
    /\ plan = <<Step("DeployBundleStep", Model)>>
    /\ Len(calls) = 1
    /\ calls[1].ret.b
    /\ AllActive(apps) /\ DOMAIN apps # {}

\* C14 (as claimed): plan idempotence: when every Step of a plan was skipped
\* or completed in a first invocation and the plan is run again right away,
\* the second invocation leaves the cluster's members, the outstanding tokens
\* and the controller's models as the first one left them.  Stated for second
\* invocations in which again every Step was skipped or completed.
C14_SecondRunChangesNothing ==
    (first.ran /\ AllStepsDone) =>
        /\ members = first.members
        /\ tokens = first.tokens
        /\ models = first.models

(***************************************************************************)
(* Properties of the polling coroutines.                                   *)
(***************************************************************************)
\* get_model_status has returned without meeting a fault
StatusReturned == pc = "gms_return" /\ ~frame.fault

\* every application known at the start is active in the returned mapping
ReturnedAllActive ==
    \A a \in frame.known :
        a \in DOMAIN frame.apps_status /\ frame.apps_status[a] = "active"

\* the statuses the model holds for the known applications
ObservedNow == [a \in frame.known \cap DOMAIN apps |-> apps[a]]

\* C15 (as claimed): get_model_status(model, timeout=0) has no deadline: it
\* does not return while some known application is not active; when it
\* returns without a fault every known application is active.
C15_ZeroTimeoutWaitsForActive ==
    (StatusReturned /\ frame.timeout = 0) =>
        \A a \in frame.known \cap DOMAIN apps : apps[a] = "active"

\* C15 (amended): get_model_status(model, timeout=0) polls once: it returns
\* after its first poll with the statuses observed at that poll, whether or
\* not every known application is active, and never polls a second time.
C15_ZeroTimeoutPollsOnce ==
    (frame.op = "get_model_status" /\ frame.timeout = 0) =>
        /\ frame.polls <= 1
        /\ pc # "gms_sleep" \/ frame.polls = 0
        /\ StatusReturned =>
              /\ frame.polls = 1
              /\ frame.apps_status = ObservedNow

\* C15 witness: with timeout 0 the call returned after one poll while a known
\* application was still waiting.
C15_Witness ==
    /\ StatusReturned
    /\ frame.timeout = 0
    /\ frame.polls = 1
    /\ \E a \in frame.known :
          a \in DOMAIN frame.apps_status /\ frame.apps_status[a] = "waiting"

\* C16: bounded poll: get_model_status(model, timeout=T) with T > 0 polls at
\* most T + 1 times, one interval apart, and then returns: it goes back to
\* sleep only while fewer than T + 1 polls are done; the mapping it returns
\* holds, for every known application of the model, the status observed at
\* the last poll.
C16_BoundedPoll ==
    (frame.op = "get_model_status" /\ frame.timeout > 0) =>
        /\ frame.polls <= frame.timeout + 1
        /\ frame.polls <= frame.elapsed
        /\ (pc = "gms_sleep" /\ frame.polls > 0) =>
              /\ frame.polls <= frame.timeout
              /\ ~frame.timed_out
        /\ StatusReturned =>
              \A a \in DOMAIN ObservedNow : frame.apps_status[a] = ObservedNow[a]

\* C16 witness: applications that never became active; the call returned at
\* poll T + 1 with the waiting status it saw last.
C16_Witness ==
    /\ StatusReturned
    /\ frame.timeout > 0
    /\ frame.polls = frame.timeout + 1
    /\ frame.timed_out
    /\ frame.apps_active = {}
    /\ frame.known = AppNames
    /\ frame.apps_status = AllApps("waiting")

\* C17 (as claimed): convergence means all known applications are active: when
\* get_model_status returns before its deadline without a fault, every
\* application known at the start of the call is active in the mapping it
\* returns.
C17_ConvergedMeansAllActive ==
    (StatusReturned /\ ~frame.timed_out) => ReturnedAllActive

\* C18: destroy_model(name, wait=True) works within a fixed budget: it lists
\* the models at most 30 times, 10 time units apart; it returns true as soon
\* as a listing lacks the model, and returns false, without listing again,
\* when the model was still listed at the 30th listing.
C18_DestroyWithinBudget ==
    frame.op = "destroy_model" =>
        /\ frame.listings <= DestroyAttempts
        /\ pc = "dm_list" =>
              /\ frame.listings < DestroyAttempts
              /\ frame.elapsed = DestroySleep * frame.listings
        /\ (pc = "dm_sleep" /\ frame.listed) => Model \in models
        /\ (pc = "dm_return" /\ frame.listings > 0) =>
              /\ ~frame.rv =>
                    /\ frame.listings = DestroyAttempts
                    /\ frame.elapsed = DestroySleep * DestroyAttempts
              /\ frame.rv => frame.elapsed = DestroySleep * (frame.listings - 1)

\* C18 witness: the controller removed the model during the second sleep and
\* the third listing confirmed it.
C18_Witness ==
    /\ pc = "dm_return"
    /\ frame.rv
    /\ frame.listed
    /\ frame.listings = 3
    /\ frame.elapsed = 2 * DestroySleep
    /\ ~frame.fault

\* C19 (as claimed): destroy_model(name, wait=True) returns true only when
\* the removal is confirmed: a listing of the models has succeeded and did not
\* hold the name.
C19_TrueOnlyWhenConfirmed ==
    (pc = "dm_return" /\ frame.rv) =>
        /\ frame.listed
        /\ Model \notin models

(***************************************************************************)
(* Properties of the controller client.                                    *)
(***************************************************************************)
\* C20: add_model never raises: run() of a CreateModelStep always comes back
\* with a result, also when the connection cannot be established; add_model
\* returned true exactly when it met no fault, and then the controller holds
\* the model and the result is COMPLETED; otherwise the result is FAILED with
\* a non-empty message.
C20_AddModelNeverRaises ==
    pc = "am_return" =>
        /\ ret.tag = "result"
        /\ frame.rv <=> ~frame.fault
        /\ frame.rv => (ret.rtype = COMPLETED /\ Model \in models)
        /\ ~frame.rv => (IsFailed(ret) /\ ret.msg # "")

\* C20 witness: the connection could not be established; add_model returned
\* false and the Step came back FAILED with its message.
C20_Witness ==
    /\ pc = "am_return"
    /\ jcontroller = "Unconnected"
    /\ ~frame.rv
    /\ ret = RetResult(FAILED, MsgCreateModel)

\* C21: deploy_bundle returns true only when every application it deployed
\* is active; it gives up only on a fault: it returns false exactly when the
\* connection, the deploy or the wait faulted, and while it waits some
\* application is not active or the wait is about to return.
C21_DeployWaitsForActive ==
    frame.op = "deploy_bundle" =>
        /\ pc = "db_return" =>
              /\ frame.rv <=> ~frame.fault
              /\ frame.rv => (DOMAIN apps = AppNames /\ AllActive(apps))
        /\ pc = "db_wait" => (~frame.rv /\ ~frame.fault)

\* C21 witness: the bundle was deployed with a unit still waiting and
\* deploy_bundle returned true once every application was active.
C21_Witness ==
    /\ pc = "db_return"
    /\ frame.op = "deploy_bundle"
    /\ frame.polls = 1
    /\ frame.rv
    /\ AllActive(apps)

\* the units asked so far answered in order, each once
QueriedInOrder ==
    \A i \in 1..Len(frame.queried) : frame.queried[i].unit = i

\* C22: run_action invokes the action on at most one unit, the first one
\* that answered it is the leader, after asking the units in order; when no
\* unit is the leader or the application does not exist it returns the empty
\* mapping and has invoked nothing; every path ends in a return.
C22_ActionOnFirstLeaderOnly ==
    frame.op = "run_action" =>
        /\ QueriedInOrder
        /\ Len(frame.invoked) <= 1
        /\ \A j \in 1..Len(frame.invoked) :
              /\ frame.queried # <<>>
              /\ frame.invoked[j] = frame.queried[Len(frame.queried)].unit
              /\ \A i \in 1..Len(frame.queried) :
                    (frame.queried[i].ans = "leader") <=> (i = frame.invoked[j])
        /\ (pc = "ra_return"
              /\ \A i \in 1..Len(frame.queried) : frame.queried[i].ans # "leader")
           => (frame.invoked = <<>> /\ frame.action_result = "empty")
        /\ pc \in {"ra_call", "ra_query", "ra_run", "ra_return"}

\* C22 witness: the first unit is not the leader, the second is, and the
\* action ran on the second unit only and gave its results.
C22_Witness ==
    /\ pc = "ra_return"
    /\ frame.op = "run_action"
    /\ Len(frame.queried) = 2
    /\ frame.invoked = <<2>>
    /\ frame.action_result = "results"

(***************************************************************************)
(* Properties of the connection handle over a plan run.                    *)
(***************************************************************************)
\* the methods of the Steps that await an operation of JujuHelper
HelperCallers ==
    {<<"is_skip", "CreateModelStep">>, <<"run", "CreateModelStep">>,
     <<"is_skip", "DeployBundleStep">>, <<"run", "DeployBundleStep">>,
     <<"run", "DestroyModelStep">>, <<"run", "ModelStatusStep">>,
     <<"run", "WriteModelStatusStep">>, <<"run", "DeployControlPlaneStep">>}
    \cup {<<"is_skip", k>> : k \in ModelProbeKinds}

\* this step is a method of a Step awaiting an operation of JujuHelper
\* (DeployControlPlaneStep.run reaches wait_until_active only after the apply)
HelperOperation ==
    /\ calls' # calls
    /\ <<pc, plan[idx].kind>> \in HelperCallers
    /\ ret' # RetResult(FAILED, MsgTerraform)

\* no operation connects once a handle exists
ConnectAtMostOnce ==
    [][jcontroller # "None" => jcontroller' \in {jcontroller, "Disconnected"}]_vars

\* C23: connect() is invoked at most once, by the first operation that needs
\* the controller; every later operation reuses the handle, and the handle an
\* operation reuses is one whose connect() succeeded.
C23_LazySingleConnection ==
    [][/\ jcontroller # "None" => jcontroller' \in {jcontroller, "Disconnected"}
       /\ (HelperOperation /\ jcontroller # "None") => jcontroller = "Connected"]_vars

\* C24: an invocation that established a connection has disconnected by the
\* time it ends, on success as well as on a FAILED Step, and the handle is
\* never disconnected while Steps remain.
C24_DisconnectOnceAtShutdown ==
    /\ pc \in {"done", "failed"} => jcontroller # "Connected"
    /\ pc \notin {"done", "crashed"} => jcontroller # "Disconnected"

(***************************************************************************)
(* Properties of ClusterJoinNodeStep.run and of the progress lines.        *)
(***************************************************************************)
\* run() of a ClusterJoinNodeStep, as logged
IsJoinNodeRun(j) ==
    calls[j].op = "run" /\ plan[calls[j].i].kind = "ClusterJoinNodeStep"

JoinFaults == {"NodeAlreadyExistsException", "NodeJoinException"}

\* C25: when join_node raises NodeAlreadyExistsException or NodeJoinException,
\* run() of the ClusterJoinNodeStep returns FAILED with the message of the
\* fault and raises nothing; the Step's run() made that one request only.
C25_JoinFaultMeansFailed ==
    \A k \in 1..Len(calls) :
        IsJoinNodeRun(k) =>
            LET r == BaseService_request(calls[k].resp) IN
            /\ (r.tag = "raise" /\ r.cls \in JoinFaults) =>
                  /\ calls[k].ret = RetResult(FAILED, r.msg)
                  /\ r.msg # ""
            /\ \A j \in 1..Len(calls) :
                  (IsJoinNodeRun(j) /\ calls[j].i = calls[k].i) => j = k

\* C25 witness: the join was refused because the token is not valid; the Step
\* came back FAILED and the command stopped with its message.
C25_Witness ==
    /\ pc = "failed"
    /\ Len(calls) = 2
    /\ IsJoinNodeRun(2)
    /\ BaseService_request(calls[2].resp).tag = "raise"
    /\ BaseService_request(calls[2].resp).cls = "NodeJoinException"
    /\ IsFailed(calls[2].ret)
    /\ exitMessage = calls[2].ret.msg

\* the Steps the loop is through with: skipped, completed or failed
Processed ==
    CASE pc \in {"is_skip", "skip_ret", "run", "run_ret"} -> idx - 1
      [] pc = "failed" -> idx
      [] pc \in {"finish", "done"} -> Len(plan)
      [] pc = "crashed" -> IF echoed THEN Len(plan) ELSE idx - 1

\* run() of the Step at position i returned FAILED
RanAndFailed(i) ==
    \E k \in 1..Len(calls) :
        calls[k].i = i /\ calls[k].op = "run" /\ IsFailed(calls[k].ret)

\* C26: the console holds one progress line for each Step the loop is
\* through with, in plan order, with the Step's description and "failed" for a
\* Step whose run() returned FAILED and "done" otherwise; there is no line
\* for a Step after a FAILED one.
C26_OneLinePerStep ==
    /\ Len(console) = Processed
    /\ \A i \in 1..Len(console) :
          /\ console[i][1] = Description(plan[i])
          /\ console[i][2] = (IF RanAndFailed(i) THEN "failed" ELSE "done")
          /\ RanAndFailed(i) => i = Len(console)

\* C26 witness: the first Step was skipped, the second ran and failed; the
\* console holds a "done" line and a "failed" line and the command stopped.
C26_Witness ==
    /\ pc = "failed"
    /\ Len(plan) = 2
    /\ Len(calls) = 3
    /\ calls[1].ret.b
    /\ console = <<Line(plan[1], "done"), Line(plan[2], "failed")>>

\* C27: when the daemon accepts the join, run() of the ClusterJoinNodeStep
\* returns COMPLETED carrying the token it was given and raises no fault.
C27_JoinSuccessMeansCompleted ==
    \A k \in 1..Len(calls) :
        (IsJoinNodeRun(k) /\ calls[k].resp.kind = "ok") =>
            calls[k].ret = RetResult(COMPLETED, plan[calls[k].i].arg)

(***************************************************************************)
(* Properties of faults the translation table does not name.               *)
(***************************************************************************)
\* the faults _request raises for the four phrases of its table
ClassifiedFaults ==
    {"NodeAlreadyExistsException", "NodeJoinException",
     "TokenAlreadyGeneratedException", "ClusterServiceUnavailableException"}

\* the call logged at k is a method of a cluster Step whose request met a
\* fault outside the table
UnclassifiedFaultAt(k) ==
    /\ plan[calls[k].i].kind \in ClusterKinds
    /\ BaseService_request(calls[k].resp).tag = "raise"
    /\ BaseService_request(calls[k].resp).cls \notin ClassifiedFaults

\* C28: once is_skip() or run() of a cluster Step met a remote fault that the
\* table does not name, the plan has stopped: that call is the last one made
\* on any Step, the loop never reaches the code after it and the success
\* message is not printed.
C28_UnclassifiedFaultStopsPlan ==
    \A k \in 1..Len(calls) :
        UnclassifiedFaultAt(k) =>
            /\ k = Len(calls)
            /\ calls[k].i = idx
            /\ pc \in {"skip_ret", "run_ret", "crashed", "failed"}
            /\ ~echoed

\* C28 witness: the first of two Steps asked the daemon for the members, the
\* daemon answered with an error the table does not name, and the command
\* ended there with the second Step never called.
C28_Witness ==
    /\ pc = "crashed"
    /\ Len(plan) = 2
    /\ Len(calls) = 1
    /\ UnclassifiedFaultAt(1)
    /\ calls[1].resp.kind = "error"
    /\ escaped = "HTTPError"

(***************************************************************************)
(* Properties of DeployControlPlaneStep and BootstrapJujuStep.             *)
(***************************************************************************)
\* C29: run() of DeployControlPlaneStep returns COMPLETED only with the model
\* applied and every application of it active on a connected handle; when
\* the apply fails it returns FAILED with the applier's message and
\* wait_until_active is not called: the handle and the model are untouched.
C29_CompletedMeansActive ==
    [][(pc = "run" /\ plan[idx].kind = "DeployControlPlaneStep") =>
          /\ (ret'.tag = "result" /\ ret'.rtype = COMPLETED) =>
                /\ Model \in models'
                /\ DOMAIN apps' = AppNames
                /\ AllActive(apps')
                /\ jcontroller' = "Connected"
          /\ IsFailed(ret') =>
                /\ ret' = RetResult(FAILED, MsgTerraform)
                /\ UNCHANGED <<jcontroller, models, apps>>]_vars

\* C29 witness: the plan was applied, every application became active and
\* the Step returned COMPLETED.
C29_Witness ==
    /\ pc = "run_ret"
    /\ plan[idx].kind = "DeployControlPlaneStep"
    /\ ret = RetResult(COMPLETED, NoMessage)
    /\ DOMAIN apps = AppNames
    /\ AllActive(apps)

\* the CLI command c was issued by the Step
Issued(c) == \E i \in 1..Len(frame.issued) : frame.issued[i] = c

\* C30: run() of BootstrapJujuStep issues `juju bootstrap` only when the
\* configured cloud is among the k8s clouds `juju clouds` reported; with no
\* k8s cloud, or without the configured one, it returns FAILED with a message
\* and has issued no bootstrap; a CLI command that fails gives FAILED; run()
\* returns a Result on every path, and COMPLETED only after the bootstrap.
C30_BootstrapOnlyOnConfiguredCloud ==
    frame.op = "bootstrap_juju" =>
        /\ Issued("bootstrap") => (Cloud \in k8sClouds /\ frame.issued[1] = "clouds")
        /\ pc = "bj_return" =>
              /\ ret.tag = "result"
              /\ (k8sClouds = {} \/ Cloud \notin k8sClouds) =>
                    /\ IsFailed(ret)
                    /\ ret.msg # ""
                    /\ ~Issued("bootstrap")
              /\ frame.fault => (IsFailed(ret) /\ ret.msg # "")
              /\ ret.rtype = COMPLETED =>
                    (Issued("bootstrap") /\ Cloud \in controllerClouds)

\* C30 witness: Juju knows a k8s cloud, but not the configured one; run()
\* returned FAILED naming the cloud and issued no bootstrap.
C30_Witness ==
    /\ pc = "bj_return"
    /\ frame.op = "bootstrap_juju"
    /\ k8sClouds = {OtherK8sCloud}
    /\ ret = RetResult(FAILED, MsgNoSuchCloud)
    /\ frame.issued = <<"clouds">>

\* a call of a BootstrapJujuStep that ended the Step skipped or completed
BootstrapJujuEndedWell(k) ==
    /\ plan[calls[k].i].kind = "BootstrapJujuStep"
    /\ \/ calls[k].op = "is_skip" /\ calls[k].ret.tag = "bool" /\ calls[k].ret.b
       \/ calls[k].op = "run" /\ calls[k].ret.tag = "result"
                              /\ calls[k].ret.rtype = COMPLETED

\* C31: whenever a BootstrapJujuStep ended skipped or completed, a controller
\* exists on the configured cloud; in particular the Step is skipped only
\* when an existing controller is on the configured cloud.
C31_ControllerOnConfiguredCloud ==
    \A k \in 1..Len(calls) :
        BootstrapJujuEndedWell(k) => Cloud \in controllerClouds

(***************************************************************************)
(* The faults that leave _request.                                         *)
(***************************************************************************)
\* the errors of the transport itself: the HTTPError of raise_for_status and
\* what session.request raises
TransportFaults == {"HTTPError", "ConnectionError"}

\* C32: for every response _request either returns the body (2xx) or raises
\* one of the four faults of its table or the original transport error; no
\* fault of another kind leaves it, whatever the body of a non-2xx response.
C32_ClosedFaultSet ==
    pc = "requested" =>
        /\ response.kind = "ok" => raised = Returned
        /\ response.kind # "ok" =>
              /\ raised.tag = "raise"
              /\ raised.cls \in ClassifiedFaults \cup TransportFaults

====
